---- MODULE Spec2Model ----
(***************************************************************************)
(* Model of fast_particle_collision_time: the Bosch-Hale DT reactivity     *)
(* (dt_fusion.py) and the Coulomb relaxation times (relaxation_times.py).  *)
(*                                                                         *)
(* Python floats and numpy float64 values are IEEE-754 binary64 numbers.   *)
(* They are modelled bit for bit: a 53-bit significand held as a natural   *)
(* number in limbs (TLC's integers are 32 bits wide), a binary exponent,   *)
(* signed zeros, infinities and NaN, with round-to-nearest-even after      *)
(* every operation.  exp, erf and pow come from libm / scipy; they are     *)
(* modelled as correctly rounded.                                          *)
(***************************************************************************)
EXTENDS Integers, Sequences, FiniteSets, TLC

(***************************************************************************)
(* Natural numbers of any size: little-endian sequences of limbs, base     *)
(* 2^13, without leading zero limbs.  Zero is << >>.  Sums and products of *)
(* limbs stay below 2^31.  Carries are resolved by look-ahead, so that the *)
(* operators need no deep recursion.  The operators B... are arithmetic    *)
(* on the integers and nothing else; the floating-point operations of the  *)
(* package are built from them in the sections that follow.                *)
(***************************************************************************)
BASE == 8192
LIMB == 13

Max(a, b) == IF a >= b THEN a ELSE b
Min(a, b) == IF a <= b THEN a ELSE b

Limb(a, i) == IF i >= 1 /\ i <= Len(a) THEN a[i] ELSE 0

\* a function over 1..n as a tuple
Tup(f) == << >> \o f
\* w, with v evaluated first: TLC evaluates an operator's arguments and LET
\* definitions only where they are first used, and a long chain of pending
\* evaluations exhausts its stack
Then(v, w) == IF v = v THEN w ELSE w
MaxOf(S) == CHOOSE m \in S : \A y \in S : y <= m

\* Apply(f, x) is the operator named f applied to the tuple x of its
\* arguments; it is defined below, after the operators it names.  The larger
\* operators are reached through it, which keeps the tree of definitions
\* that TLC expands small.
RECURSIVE Apply(_, _)

BTrim(a) ==
  LET nz == {i \in 1..Len(a) : a[i] # 0}
  IN  IF nz = {} THEN << >> ELSE SubSeq(a, 1, MaxOf(nz))

BInt(n) ==
  BTrim(<<n % BASE, (n \div BASE) % BASE, n \div (BASE * BASE)>>)

\* the carry into limb i of a sum with limb sums s: the nearest limb below
\* i that does not just pass a carry on decides it
BAdd(a, b) == Apply("BAdd", <<a, b>>)
DoBAdd(a, b) ==
  LET n == Max(Len(a), Len(b)) + 1
      s == Tup([i \in 1..n |-> Limb(a, i) + Limb(b, i)])
      cin(i) == LET c == {j \in 1..(i - 1) : s[j] # BASE - 1}
                IN  c # {} /\ s[MaxOf(c)] >= BASE
  IN  Then(a, Then(b, Then(s,
        BTrim(Tup([i \in 1..n |-> (s[i] + (IF cin(i) THEN 1 ELSE 0)) % BASE])))))

\* a - b for a >= b
BSub(a, b) == Apply("BSub", <<a, b>>)
DoBSub(a, b) ==
  LET n == Len(a)
      d == Tup([i \in 1..n |-> a[i] - Limb(b, i)])
      bin(i) == LET c == {j \in 1..(i - 1) : d[j] # 0}
                IN  c # {} /\ d[MaxOf(c)] < 0
  IN  Then(a, Then(b, Then(d,
        BTrim(Tup([i \in 1..n |-> (d[i] - (IF bin(i) THEN 1 ELSE 0) + BASE) % BASE])))))

\* -1, 0, 1 as a < b, a = b, a > b (a and b without leading zero limbs)
BCmp(a, b) == Apply("BCmp", <<a, b>>)
DoBCmp(a, b) ==
  IF Len(a) < Len(b) THEN -1
  ELSE IF Len(a) > Len(b) THEN 1
  ELSE LET df == {i \in 1..Len(a) : a[i] # b[i]}
       IN  IF df = {} THEN 0
           ELSE IF a[MaxOf(df)] < b[MaxOf(df)] THEN -1 ELSE 1

Zeros(n) == Tup([i \in 1..n |-> 0])
\* a * BASE^n
BShlLimbs(a, n) == IF a = << >> THEN a ELSE Zeros(n) \o a
\* floor(a / BASE^n)
BShrLimbs(a, n) == IF n >= Len(a) THEN << >> ELSE SubSeq(a, n + 1, Len(a))

\* a * k for 0 <= k <= BASE
BMulSmall(a, k) == Apply("BMulSmall", <<a, k>>)
DoBMulSmall(a, k) ==
  LET p == Tup([i \in 1..Len(a) |-> a[i] * k])
  IN  Then(p, BAdd(Tup([i \in 1..Len(a) |-> p[i] % BASE]),
                   <<0>> \o [i \in 1..Len(a) |-> p[i] \div BASE]))

\* the sum of a[i] * b[k+1-i] over i <= top (a column of the product)
RECURSIVE ColSum(_, _, _, _)
ColSum(a, b, k, i) ==
  IF i <= 0 THEN 0
  ELSE Limb(a, i) * Limb(b, k + 1 - i) + Limb(a, i - 1) * Limb(b, k + 2 - i)
       + Limb(a, i - 2) * Limb(b, k + 3 - i) + Limb(a, i - 3) * Limb(b, k + 4 - i)
       + ColSum(a, b, k, i - 4)

\* a * b, for a and b of at most 16 limbs
BMul(a, b) == Apply("BMul", <<a, b>>)
DoBMul(a, b) ==
  LET n   == Len(a) + Len(b)
      col == Tup([k \in 1..n |-> ColSum(a, b, k, Min(k, Len(a)))])
      lo  == BAdd(Tup([k \in 1..n |-> col[k] % BASE]),
                  <<0>> \o [k \in 1..n |-> (col[k] \div BASE) % BASE])
  IN  Then(col, Then(lo,
        BAdd(lo, <<0, 0>> \o [k \in 1..n |-> col[k] \div (BASE * BASE)])))

Reverse(s) == Tup([i \in 1..Len(s) |-> s[Len(s) + 1 - i]])

\* division by 1 <= k <= BASE, limb by limb from the top: st.i is the next
\* limb, st.r the running remainder, st.q the quotient's limbs so far (most
\* significant first)
DivSmallStep(a, k, st) ==
  IF st.i = 0 THEN st
  ELSE LET cur == st.r * BASE + a[st.i]
       IN  [i |-> st.i - 1, r |-> cur % k, q |-> Append(st.q, cur \div k)]
\* n steps, halving n so that the evaluation stays shallow
RECURSIVE DivSmallRun(_, _, _, _)
DivSmallRun(a, k, st, n) ==
  IF n <= 1 THEN DivSmallStep(a, k, st)
  ELSE LET mid == DivSmallRun(a, k, st, n \div 2)
       IN  IF mid.i = 0 THEN mid ELSE DivSmallRun(a, k, mid, n - n \div 2)
\* <<floor(a / k), a mod k>>
BDivSmall(a, k) == Apply("BDivSmall", <<a, k>>)
DoBDivSmall(a, k) ==
  LET st == DivSmallRun(a, k, [i |-> Len(a), r |-> 0, q |-> << >>], Len(a))
  IN  Then(a, Then(st, <<BTrim(Reverse(st.q)), st.r>>))

BitLenInt(n) ==
  IF n = 0 THEN 0 ELSE CHOOSE k \in 1..31 : 2^(k - 1) <= n /\ (k = 31 \/ n < 2^k)
BBitLen(a) == Apply("BBitLen", <<a>>)
DoBBitLen(a) ==
  IF a = << >> THEN 0 ELSE LIMB * (Len(a) - 1) + BitLenInt(a[Len(a)])

\* a * 2^n, n >= 0
BShl(a, n) == Apply("BShl", <<a, n>>)
DoBShl(a, n) == BShlLimbs(BMulSmall(a, 2^(n % LIMB)), n \div LIMB)
\* floor(a / 2^n), n >= 0
BShr(a, n) == Apply("BShr", <<a, n>>)
DoBShr(a, n) ==
  LET b == BShrLimbs(a, n \div LIMB)
      s == n % LIMB
  IN  BTrim(Tup([i \in 1..Len(b) |->
               (b[i] \div 2^s) + (Limb(b, i + 1) % 2^s) * 2^(LIMB - s)]))
\* whether a mod 2^n is not zero
BLowBits(a, n) ==
  \/ \E i \in 1..Min(n \div LIMB, Len(a)) : a[i] # 0
  \/ Limb(a, n \div LIMB + 1) % 2^(n % LIMB) # 0
\* bit n (0 = least significant) of a
BBit(a, n) == (Limb(a, n \div LIMB + 1) \div 2^(n % LIMB)) % 2
BOdd(a) == Limb(a, 1) % 2 = 1

(***************************************************************************)
(* Long division in base 2^13: each quotient digit is estimated from the   *)
(* top limbs of the running remainder and corrected downwards.             *)
(***************************************************************************)
RECURSIVE QDigit(_, _, _)
QDigit(r, d, q) ==
  LET p == BMulSmall(d, q)
  IN  IF BCmp(p, r) > 0 THEN QDigit(r, d, q - 1) ELSE <<q, BSub(r, p)>>

\* one digit: r < d*BASE, d normalised (top limb >= BASE/2)
QStep(r, d) ==
  LET n   == Len(d)
      top == Limb(r, n + 1) * BASE + Limb(r, n)
  IN  QDigit(r, d, Min(BASE - 1, top \div d[n]))

\* long division of a by the normalised d, limb by limb from the top: st.i
\* is the next limb, st.r the running remainder, st.q the quotient's limbs
\* so far (most significant first)
DivStep(a, d, st) ==
  IF st.i = 0 THEN st
  ELSE LET qs == QStep(BTrim(<<a[st.i]>> \o st.r), d)
       IN  Then(qs, [i |-> st.i - 1, r |-> qs[2], q |-> Append(st.q, qs[1])])
RECURSIVE DivRun(_, _, _, _)
DivRun(a, d, st, n) ==
  IF n <= 1 THEN DivStep(a, d, st)
  ELSE LET mid == DivRun(a, d, st, n \div 2)
       IN  IF mid.i = 0 THEN mid ELSE DivRun(a, d, mid, n - n \div 2)

\* <<floor(a / d), whether the remainder is not zero>>, d # 0
BDiv(a, d) == Apply("BDiv", <<a, d>>)
DoBDiv(a, d) ==
  LET s  == LIMB - BitLenInt(d[Len(d)])
      an == BMulSmall(a, 2^s)
      dn == BMulSmall(d, 2^s)
      st == DivRun(an, dn, [i |-> Len(an), r |-> << >>, q |-> << >>], Len(an))
  IN  Then(a, Then(d, Then(an, Then(dn, Then(st,
        <<BTrim(Reverse(st.q)), st.r # << >>>>)))))

\* floor(sqrt(a)) by Newton's iteration from above
RECURSIVE BSqrtR(_, _)
BSqrtR(a, x) ==
  LET q == BDiv(a, x)[1]
      y == BShr(BAdd(x, q), 1)
  IN  Then(q, IF BCmp(y, x) < 0 THEN BSqrtR(a, y) ELSE x)
BSqrt(a) ==
  IF a = << >> THEN a ELSE BSqrtR(a, BShl(<<1>>, (BBitLen(a) + 1) \div 2))

\* floor(cbrt(a)) by Newton's iteration from above
RECURSIVE BCbrtR(_, _)
BCbrtR(a, x) ==
  LET x2 == BMul(x, x)
      q  == BDiv(a, x2)[1]
      y  == BDivSmall(BAdd(BMulSmall(x, 2), q), 3)[1]
  IN  Then(x2, Then(q, IF BCmp(y, x) < 0 THEN BCbrtR(a, y) ELSE x))
BCbrt(a) == Apply("BCbrt", <<a>>)
DoBCbrt(a) ==
  IF a = << >> THEN a ELSE BCbrtR(a, BShl(<<1>>, (BBitLen(a) + 2) \div 3))

\* a^n for n in 1..4
BPow(a, n) ==
  IF n = 1 THEN a
  ELSE IF n = 2 THEN BMul(a, a)
  ELSE IF n = 3 THEN BMul(a, BMul(a, a))
  ELSE BMul(BMul(a, a), BMul(a, a))

\* 10^n
RECURSIVE BPow10(_)
BPow10(n) ==
  IF n <= 3 THEN <<10^n>>
  ELSE BMul(BPow10(n \div 2), BPow10(n - n \div 2))

\* the number written in decimal as the chunks of three digits ch
RECURSIVE BDecR(_, _)
BDecR(ch, i) ==
  IF i = 0 THEN << >>
  ELSE LET hi == BDecR(ch, i - 1)
       IN  Then(hi, BAdd(BMulSmall(hi, 1000), BInt(ch[i])))
BDec(ch) == BDecR(ch, Len(ch))

(***************************************************************************)
(* IEEE-754 binary64.  A value is a record: k is "nan", "inf", "zero" or   *)
(* "fin"; s is the sign bit; a finite non-zero value is m * 2^e with       *)
(* 2^52 <= m < 2^53, or m < 2^52 and e = -1074 (subnormal).                *)
(***************************************************************************)
PREC == 53
EMIN == -1074
EMAX == 971

NaN == [k |-> "nan", s |-> 0, m |-> << >>, e |-> 0]
Inf(s) == [k |-> "inf", s |-> s, m |-> << >>, e |-> 0]
Zero(s) == [k |-> "zero", s |-> s, m |-> << >>, e |-> 0]
Fin(s, m, e) == [k |-> "fin", s |-> s, m |-> m, e |-> e]

\* round-to-nearest-even of (-1)^s * (n + f) * 2^e, where n # 0 and
\* 0 <= f < 1 with f # 0 exactly when sticky holds; with sticky, n has
\* at least PREC + 2 bits
Round(s, n, e, sticky) == Apply("Round", <<s, n, e, sticky>>)
DoRound(s, n, e, sticky) ==
  LET len == BBitLen(n)
      e1  == Max(e + len - PREC, EMIN)
      sh  == e1 - e
      q0  == IF sh <= 0 THEN BShl(n, -sh) ELSE BShr(n, sh)
      up  == /\ sh > 0
             /\ BBit(n, sh - 1) = 1
             /\ (BLowBits(n, sh - 1) \/ sticky \/ BOdd(q0))
      q1  == IF up THEN BAdd(q0, <<1>>) ELSE q0
      ovf == BBitLen(q1) > PREC
      q   == IF ovf THEN BShr(q1, 1) ELSE q1
      e2  == IF ovf THEN e1 + 1 ELSE e1
  IN  Then(n, Then(q0, Then(q1,
        IF q = << >> THEN Zero(s)
        ELSE IF e2 > EMAX THEN Inf(s)
        ELSE Fin(s, q, e2))))

Xor(a, b) == (a + b) % 2
FNeg(a) == IF a.k = "nan" THEN a ELSE [a EXCEPT !.s = 1 - a.s]
FAbs(a) == IF a.k = "nan" THEN a ELSE [a EXCEPT !.s = 0]
IsNaN(a) == a.k = "nan"
IsInf(a) == a.k = "inf"
IsZero(a) == a.k = "zero"
IsFinite(a) == a.k \in {"zero", "fin"}

FMul(a, b) ==
  IF a.k = "nan" \/ b.k = "nan" THEN NaN
  ELSE IF a.k = "inf" \/ b.k = "inf" THEN
    (IF a.k = "zero" \/ b.k = "zero" THEN NaN ELSE Inf(Xor(a.s, b.s)))
  ELSE IF a.k = "zero" \/ b.k = "zero" THEN Zero(Xor(a.s, b.s))
  ELSE Round(Xor(a.s, b.s), BMul(a.m, b.m), a.e + b.e, FALSE)

\* IEEE division: x/0 is an infinity, 0/0 is NaN
FDiv(a, b) ==
  IF a.k = "nan" \/ b.k = "nan" THEN NaN
  ELSE IF a.k = "inf" THEN (IF b.k = "inf" THEN NaN ELSE Inf(Xor(a.s, b.s)))
  ELSE IF b.k = "inf" THEN Zero(Xor(a.s, b.s))
  ELSE IF b.k = "zero" THEN (IF a.k = "zero" THEN NaN ELSE Inf(Xor(a.s, b.s)))
  ELSE IF a.k = "zero" THEN Zero(Xor(a.s, b.s))
  ELSE LET sh == 2 * PREC + 7 - BBitLen(a.m)
           q  == BDiv(BShl(a.m, sh), b.m)
       IN  Then(q, Round(Xor(a.s, b.s), q[1], a.e - sh - b.e, q[2]))

\* the sum of two finite non-zero values; hi has the larger exponent.  When
\* lo is below a quarter of hi's last place it only decides the rounding
FAddFin(hi, lo) ==
  LET gap == hi.e - lo.e
      far == gap > PREC + 11
      h   == BShl(hi.m, IF far THEN 3 ELSE gap)
      l   == IF far THEN <<1>> ELSE lo.m
      c   == BCmp(h, l)
      n   == IF hi.s = lo.s THEN (IF far THEN h ELSE BAdd(h, l))
             ELSE BSub(IF c >= 0 THEN h ELSE l, IF c >= 0 THEN l ELSE h)
  IN  IF hi.s # lo.s /\ c = 0 THEN Zero(0)
      ELSE Round(IF hi.s = lo.s \/ c >= 0 THEN hi.s ELSE lo.s, n,
                 IF far THEN hi.e - 3 ELSE lo.e, far)

FAdd(a, b) == Apply("FAdd", <<a, b>>)
DoFAdd(a, b) ==
  IF a.k = "nan" \/ b.k = "nan" THEN NaN
  ELSE IF a.k = "inf" THEN (IF b.k = "inf" /\ a.s # b.s THEN NaN ELSE a)
  ELSE IF b.k = "inf" THEN b
  ELSE IF a.k = "zero" THEN
    (IF b.k = "zero" THEN Zero(IF a.s = 1 /\ b.s = 1 THEN 1 ELSE 0) ELSE b)
  ELSE IF b.k = "zero" THEN a
  ELSE FAddFin(IF a.e >= b.e THEN a ELSE b, IF a.e >= b.e THEN b ELSE a)

FSub(a, b) == FAdd(a, FNeg(b))

FSqrt(a) ==
  IF a.k = "nan" THEN NaN
  ELSE IF a.k = "zero" THEN a
  ELSE IF a.s = 1 THEN NaN
  ELSE IF a.k = "inf" THEN a
  ELSE LET sh0 == 2 * PREC + 6 - BBitLen(a.m)
           sh  == IF (a.e - sh0) % 2 = 0 THEN sh0 ELSE sh0 + 1
           n   == BShl(a.m, sh)
           r   == BSqrt(n)
           ex  == BMul(r, r) # n
       IN  Then(n, Then(r, Then(ex, Round(0, r, (a.e - sh) \div 2, ex))))

\* a^n for an integer n in 1..4, rounded once (libm's pow is exact here)
FPowInt(a, n) ==
  IF a.k = "nan" THEN NaN
  ELSE IF a.k = "inf" THEN Inf(IF n % 2 = 1 THEN a.s ELSE 0)
  ELSE IF a.k = "zero" THEN Zero(IF n % 2 = 1 THEN a.s ELSE 0)
  ELSE Round(IF n % 2 = 1 THEN a.s ELSE 0, BPow(a.m, n), n * a.e, FALSE)

\* a < b on values that are not NaN
FLt(a, b) ==
  LET neg(v) == v.s = 1 /\ v.k # "zero"
      \* magnitude order of non-negative values
      mlt(u, v) ==
        IF u.k = "inf" THEN FALSE
        ELSE IF v.k = "inf" THEN TRUE
        ELSE IF v.k = "zero" THEN FALSE
        ELSE IF u.k = "zero" THEN TRUE
        ELSE LET lu == u.e + BBitLen(u.m)
                 lv == v.e + BBitLen(v.m)
             IN  IF lu # lv THEN lu < lv
                 ELSE BCmp(BShl(u.m, u.e - Min(u.e, v.e)),
                           BShl(v.m, v.e - Min(u.e, v.e))) < 0
  IN  IF IsNaN(a) \/ IsNaN(b) THEN FALSE
      ELSE IF neg(a) /\ ~neg(b) THEN TRUE
      ELSE IF ~neg(a) /\ neg(b) THEN FALSE
      ELSE IF neg(a) THEN mlt(b, a)
      ELSE mlt(a, b)
FLe(a, b) == ~IsNaN(a) /\ ~IsNaN(b) /\ ~FLt(b, a)
FNegative(a) == a.k \in {"fin", "inf"} /\ a.s = 1

\* the double nearest to digits * 10^e10, as Python reads a literal
FromDec(digits, e10) == Apply("FromDec", <<digits, e10>>)
DoFromDec(digits, e10) ==
  LET n == BDec(digits)
  IN  IF n = << >> THEN Zero(0)
      ELSE IF e10 >= 0 THEN Round(0, BMul(n, BPow10(e10)), 0, FALSE)
      ELSE LET d  == BPow10(-e10)
               sh == Max(0, BBitLen(d) - BBitLen(n)) + PREC + 7
               q  == BDiv(BShl(n, sh), d)
           IN  Then(d, Then(q, Round(0, q[1], -sh, q[2])))
FromInt(n) == Apply("FromInt", <<n>>)
DoFromInt(n) == IF n = 0 THEN Zero(0) ELSE Round(0, BInt(n), 0, FALSE)

One == Fin(0, BShl(<<1>>, PREC - 1), 1 - PREC)

(***************************************************************************)
(* exp, erf and x**(1/3), each computed in fixed point well beyond 53 bits *)
(* and rounded once.                                                       *)
(***************************************************************************)
\* fractional limbs of the fixed-point numbers of exp
EXPL == 9
\* floor(ln(2) * 2^(13*9))
LN2 == <<7774, 6147, 7580, 4728, 4951, 7415, 7144, 2143, 5678>>

\* m * 2^e as a fixed-point number with fl fractional limbs, rounded down
ToFixed(m, e, fl) ==
  LET sh == e + LIMB * fl
  IN  IF sh >= 0 THEN BShl(m, sh) ELSE BShr(m, -sh)

\* one more term of sum r^j / j!: t is the last term added, j its index
ExpStep(st, r) ==
  IF st.t = << >> THEN st
  ELSE LET p == BMul(st.t, r)
           t == BDivSmall(BShrLimbs(p, EXPL), st.j + 1)[1]
       IN  Then(p, Then(t, [t |-> t, s |-> BAdd(st.s, t), j |-> st.j + 1]))

\* n steps, halving n so that the evaluation stays shallow
RECURSIVE ExpRun(_, _, _)
ExpRun(st, r, n) ==
  IF n = 1 THEN ExpStep(st, r)
  ELSE LET mid == ExpRun(st, r, n \div 2)
       IN  IF mid.t = << >> THEN mid ELSE ExpRun(mid, r, n - n \div 2)

\* floor(exp(r) * 2^(13*9)) up to a few units, for a fixed-point 0 <= r <= ln 2
ExpFixed(r) == Apply("ExpFixed", <<r>>)
DoExpFixed(r) ==
  LET one == BShlLimbs(<<1>>, EXPL)
  IN  ExpRun([t |-> one, s |-> one, j |-> 0], r, 64).s

BToInt(a) == Limb(a, 1) + BASE * Limb(a, 2)

Exp(x) ==
  IF x.k = "nan" THEN NaN
  ELSE IF x.k = "inf" THEN (IF x.s = 0 THEN x ELSE Zero(0))
  ELSE IF x.k = "zero" THEN One
  ELSE IF x.e + BBitLen(x.m) > 11 THEN (IF x.s = 0 THEN Inf(0) ELSE Zero(0))
  ELSE IF x.e + BBitLen(x.m) < -60 THEN One
  ELSE LET ax == ToFixed(x.m, x.e, EXPL)
           n  == BToInt(BDiv(ax, LN2)[1])
           r  == BSub(ax, BMulSmall(LN2, n))
           y  == IF x.s = 0 THEN ExpFixed(r) ELSE ExpFixed(BSub(LN2, r))
       IN  Then(ax, Then(r, Then(y,
             IF x.s = 0 THEN Round(0, y, n - LIMB * EXPL, TRUE)
             ELSE Round(0, y, -n - 1 - LIMB * EXPL, TRUE))))

\* fractional limbs of the fixed-point numbers of erf
ERFL == 12
\* floor(2/sqrt(pi) * 2^(13*12))
TWO_OVER_SQRT_PI ==
  <<5149, 5129, 6688, 8112, 7895, 2215, 6378, 565, 7021, 532, 5588, 1051, 1>>

\* one more term of sum (-1)^n t^n / (n! (2n+1)): p is t^n/n!, the terms
\* of even n are summed in pos, those of odd n in neg
ErfStep(st, t) ==
  IF st.p = << >> THEN st
  ELSE LET pt   == BMul(st.p, t)
           p    == BDivSmall(BShrLimbs(pt, ERFL), st.n + 1)[1]
           term == BDivSmall(p, 2 * st.n + 3)[1]
       IN  Then(pt, Then(p, Then(term, IF st.n % 2 = 0
           THEN [p |-> p, pos |-> st.pos, neg |-> BAdd(st.neg, term), n |-> st.n + 1]
           ELSE [p |-> p, pos |-> BAdd(st.pos, term), neg |-> st.neg, n |-> st.n + 1])))

RECURSIVE ErfRun(_, _, _)
ErfRun(st, t, n) ==
  IF n = 1 THEN ErfStep(st, t)
  ELSE LET mid == ErfRun(st, t, n \div 2)
       IN  IF mid.p = << >> THEN mid ELSE ErfRun(mid, t, n - n \div 2)

Six == FromInt(6)

\* scipy.special.erf
Erf(x) ==
  IF x.k = "nan" THEN NaN
  ELSE IF x.k = "inf" THEN Fin(x.s, One.m, One.e)
  ELSE IF x.k = "zero" THEN x
  ELSE IF ~FLt(FAbs(x), Six) THEN Fin(x.s, One.m, One.e)
  ELSE LET t   == ToFixed(BMul(x.m, x.m), 2 * x.e, ERFL)
           one == BShlLimbs(<<1>>, ERFL)
           st  == ErfRun([p |-> one, pos |-> one, neg |-> << >>, n |-> 0], t, 256)
           sm  == BSub(st.pos, st.neg)
           g   == BShrLimbs(BMul(sm, TWO_OVER_SQRT_PI), ERFL)
           n   == BMul(x.m, g)
       IN  Then(t, Then(st, Then(sm, Then(g, Then(n,
             Round(x.s, n, x.e - LIMB * ERFL, TRUE))))))

\* ln(m * 2^e) * 2^16, to about 2^-12, for m # 0
LnApprox(m, e) == Apply("LnApprox", <<m, e>>)
DoLnApprox(m, e) ==
  LET bl  == BBitLen(m)
      u   == BToInt(IF bl >= 14 THEN BShr(m, bl - 14) ELSE BShl(m, 14 - bl))
      zi  == ((u - 8192) * 65536) \div (u + 8192)
      z2  == (zi * zi) \div 65536
      z4  == (z2 * z2) \div 65536
      z6  == (z4 * z2) \div 65536
      a   == 65536 + z2 \div 3 + z4 \div 5 + z6 \div 7
  IN  (e + bl - 1) * 45426 + (zi * a) \div 32768

\* x ** (1/3): the exponent is the double nearest to 1/3, which is
\* 1/3 - 1/(3 * 2^54), so the result is cbrt(x) * (1 - ln(x) / (3 * 2^54))
PowThirdFin(x) ==
  LET sh0  == 198 - BBitLen(x.m)
      sh   == sh0 + ((x.e - sh0) % 3)
      r    == BCbrt(BShl(x.m, sh))
      l    == LnApprox(x.m, x.e)
      corr == BDivSmall(BShr(BMul(r, BInt(IF l < 0 THEN -l ELSE l)), 70), 3)[1]
      r1   == IF l < 0 THEN BAdd(r, corr) ELSE BSub(r, corr)
  IN  Then(r, Then(corr, Then(r1, Round(0, r1, (x.e - sh) \div 3, TRUE))))

(***************************************************************************)
(* Python and numpy values.  A value is a record [t, v]: t is its type and *)
(* v a double (int, float, float64), the tuple of an array's elements      *)
(* (ndarray, an unnamed temporary), a heap address (ref, a name bound to   *)
(* an array) or unused (complex, None, a raised exception).                *)
(***************************************************************************)
Scalar(t, d) == [t |-> t, v |-> <<d>>, a |-> <<0, 0>>]
PyInt(n)   == Scalar("int", IF n < 0 THEN FNeg(FromInt(-n)) ELSE FromInt(n))
PyFloat(d) == Scalar("float", d)
Float64(d) == Scalar("float64", d)
NdArray(a) == [t |-> "ndarray", v |-> a, a |-> <<0, 0>>]
List(l)    == [t |-> "list", v |-> l, a |-> <<0, 0>>]
Ref(r)     == [t |-> "ref", v |-> << >>, a |-> r]
Complex    == [t |-> "complex", v |-> << >>, a |-> <<0, 0>>]
None       == [t |-> "None", v |-> << >>, a |-> <<0, 0>>]
Raised(e)  == [t |-> e, v |-> << >>, a |-> <<0, 0>>]
\* the double of a scalar
Num(a)     == a.v[1]
Exceptions == {"ZeroDivisionError", "OverflowError", "AssertionError"}
IsExc(a)   == a.t \in Exceptions
IsPython(a) == a.t \in {"int", "float"}

\* the value a name stands for: a reference reads the array it points to
Val(h, a) == IF a.t = "ref" THEN NdArray(h[a.a]) ELSE a
\* Elem with the first element taken for every element of an array
ElemFirst(a, i) == IF a.t = "ndarray" THEN a.v[1] ELSE Num(a)
\* element i of an operand of an elementwise operation (a scalar broadcasts)
Elem(a, i) == IF a.t = "ndarray" THEN a.v[i] ELSE Num(a)

\* a op b on two doubles under IEEE-754 rules
Arith(op, a, b) ==
  IF op = "+" THEN FAdd(a, b)
  ELSE IF op = "-" THEN FAdd(a, FNeg(b))
  ELSE IF op = "*" THEN FMul(a, b)
  ELSE FDiv(a, b)

\* a op b.  An exception propagates.  An array operand makes the operation
\* elementwise and a numpy scalar makes it a numpy operation: IEEE results,
\* a warning at most.  Two Python numbers follow Python's rules: a division
\* by zero raises.
BinOp(op, a, b) == Apply("BinOp", <<op, a, b>>)
DoBinOp(op, a, b) ==
  IF IsExc(a) THEN a
  ELSE IF IsExc(b) THEN b
  ELSE IF op = "/" /\ IsPython(b) /\ IsZero(Num(b)) /\ (IsPython(a) \/ a.t = "complex")
    THEN Raised("ZeroDivisionError")
  ELSE IF a.t = "complex" \/ b.t = "complex" THEN Complex
  ELSE LET r == Tup([i \in 1..Max(Len(a.v), Len(b.v)) |->
                      Arith(op, Elem(a, i), Elem(b, i))])
       IN  IF a.t = "ndarray" \/ b.t = "ndarray" THEN NdArray(r)
           ELSE IF a.t = "float64" \/ b.t = "float64" THEN Float64(r[1])
           ELSE IF a.t = "int" /\ b.t = "int" /\ op # "/" THEN Scalar("int", r[1])
           ELSE PyFloat(r[1])

\* libm's pow(x, 1/3): NaN for a negative finite x
FPowThird(x) == Apply("FPowThird", <<x>>)
DoFPowThird(x) ==
  IF x.k = "nan" THEN NaN
  ELSE IF x.k = "inf" THEN Inf(0)
  ELSE IF x.k = "zero" THEN Zero(0)
  ELSE IF x.s = 1 THEN NaN
  ELSE PowThirdFin(x)

\* a ** b, where b is an int literal from 2 to 4 or the float 1/3 (the
\* package has no other exponent).  A Python float raises when the result
\* overflows and gives a complex number for a negative base under 1/3;
\* numpy returns inf and NaN
Pow(a, b) ==
  IF IsExc(a) \/ a.t = "complex" THEN a
  ELSE LET third == b.t = "float"
           n == BToInt(BShr(Num(b).m, -Num(b).e))
           r == Tup([i \in 1..Len(a.v) |->
                      IF third THEN FPowThird(a.v[i]) ELSE FPowInt(a.v[i], n)])
       IN  IF a.t = "ndarray" THEN NdArray(r)
           ELSE IF a.t = "float64" THEN Float64(r[1])
           ELSE IF third /\ Num(a).k = "fin" /\ Num(a).s = 1 THEN Complex
           ELSE IF ~third /\ IsFinite(Num(a)) /\ IsInf(r[1]) THEN Raised("OverflowError")
           ELSE Scalar(IF third THEN "float" ELSE a.t, r[1])

\* -a, np.sqrt(a), np.exp(a), scipy.special.erf(a) on a double
Fun(f, d) == Apply("Fun", <<f, d>>)
DoFun(f, d) ==
  IF f = "-" THEN FNeg(d)
  ELSE IF f = "np.sqrt" THEN FSqrt(d)
  ELSE IF f = "np.exp" THEN Exp(d)
  ELSE Erf(d)

\* f(a): elementwise on an array; a numpy function makes a float64 of any
\* real scalar
Unary(f, a) ==
  IF IsExc(a) \/ a.t = "complex" THEN a
  ELSE LET r == Tup([i \in 1..Len(a.v) |-> Fun(f, a.v[i])])
       IN  IF a.t = "ndarray" THEN NdArray(r)
           ELSE IF f = "-" THEN Scalar(a.t, r[1])
           ELSE Float64(r[1])

(***************************************************************************)
(* constants.py, and the literals of the two modules.                      *)
(***************************************************************************)
ELECTRON_CHARGE == FromDec(<<160, 217, 662>>, -27)
COULOMB_LOG == 17
PERMITTIVITY_OF_FREE_SPACE == FromDec(<<88, 541, 878, 128>>, -22)
ELECTRON_MASS == FromDec(<<910, 938, 356>>, -39)
PROTON_MASS == FromDec(<<1, 672, 621, 777>>, -36)
ALPHA_ION_MASS == FromDec(<<6, 644, 656>>, -33)

\* the module object `constants` as the import leaves it
ConstantsModule == Apply("ConstantsModule", << >>)
DoConstantsModule ==
  [ELECTRON_CHARGE            |-> PyFloat(ELECTRON_CHARGE),
   COULOMB_LOG                |-> PyInt(COULOMB_LOG),
   PERMITTIVITY_OF_FREE_SPACE |-> PyFloat(PERMITTIVITY_OF_FREE_SPACE),
   ELECTRON_MASS              |-> PyFloat(ELECTRON_MASS),
   PROTON_MASS                |-> PyFloat(PROTON_MASS),
   ALPHA_ION_MASS             |-> PyFloat(ALPHA_ION_MASS)]

gamov_constant == PyFloat(FromDec(<<34, 382>>, -3))
mrc2 == 1124656
const_1 == PyFloat(FromDec(<<117, 302>>, -14))
const_2 == PyFloat(FromDec(<<151, 361>>, -7))
const_3 == PyFloat(FromDec(<<751, 886>>, -7))
const_4 == PyFloat(FromDec(<<460, 643>>, -8))
const_5 == PyFloat(FromDec(<<135>>, -4))
\* const_6 without its minus sign
const_6_positive == PyFloat(FromDec(<<10, 675>>, -8))
const_6 == PyFloat(FNeg(FromDec(<<10, 675>>, -8)))
const_7 == PyFloat(FromDec(<<1, 366>>, -8))
Quarter == PyFloat(FromDec(<<25>>, -2))
np_pi == PyFloat(FromDec(<<3, 141, 592, 653, 589, 793>>, -15))


(***************************************************************************)
(* The Python of the package as data.  An expression is a literal, a name, *)
(* a constant of the module `constants`, a binary operation, a power, or a *)
(* unary minus or function call; a statement assigns, updates in place or  *)
(* returns, and names the position that follows it.                        *)
(***************************************************************************)
Lit(v)          == [e |-> "lit", v |-> v]
Var(n)          == [e |-> "var", n |-> n]
Const(n)        == [e |-> "const", n |-> n]
Bin(op, l, r)   == [e |-> "bin", op |-> op, l |-> l, r |-> r]
Power(l, r)     == [e |-> "pow", l |-> l, r |-> r]
Un(f, x)        == [e |-> "un", f |-> f, x |-> x]
Add(l, r) == Bin("+", l, r)
Sub(l, r) == Bin("-", l, r)
Mul(l, r) == Bin("*", l, r)
Div(l, r) == Bin("/", l, r)
IntLit(n) == Lit(PyInt(n))

Assign(name, x, next)        == [s |-> "=", name |-> name, x |-> x, next |-> next]
AugAssign(name, op, x, next) == [s |-> "op=", name |-> name, op |-> op, x |-> x, next |-> next]
Return(x)                    == [s |-> "return", x |-> x]

\* the value of expression x under the names env, the heap h and the
\* globals g; the operands are evaluated left to right
Eval(x, env, h, g) == Apply("Eval", <<x, env, h, g>>)
DoEval(x, env, h, g) ==
  IF x.e = "lit" THEN x.v
  ELSE IF x.e = "var" THEN Val(h, env[x.n])
  ELSE IF x.e = "const" THEN g[x.n]
  ELSE IF x.e = "un" THEN
    LET a == Eval(x.x, env, h, g) IN Then(a, Unary(x.f, a))
  ELSE
    LET a == Eval(x.l, env, h, g)
        b == Eval(x.r, env, h, g)
    IN  Then(a, IF IsExc(a) THEN a
                ELSE Then(b, IF x.e = "pow" THEN Pow(a, b) ELSE BinOp(x.op, a, b)))

(***************************************************************************)
(* Execution.  A state st of an invocation is [f, h, g]: its frame (the    *)
(* caller id, the call, the position pc, the names env, the result ret),   *)
(* the heap of arrays and the globals.  An address is <<0, k>> for the     *)
(* k-th array of the callers and <<id, k>> for the k-th array created on   *)
(* behalf of caller id.                                                    *)
(***************************************************************************)
\* Fresh with the array of line 30 of dt_fusion.py kept in one place for
\* all invocations
FreshShared(st) ==
  IF st.f.pc = "30" THEN <<0, 0>>
  ELSE <<st.f.id, 1 + Cardinality({a \in DOMAIN st.h : a[1] = st.f.id})>>
\* the address of a newly created array
Fresh(st) == <<st.f.id, 1 + Cardinality({a \in DOMAIN st.h : a[1] = st.f.id})>>
Store(h, a, arr) == [x \in DOMAIN h \cup {a} |-> IF x = a THEN arr ELSE h[x]]
Raise(st, e) == [st EXCEPT !.f.pc = "raised", !.f.ret = e]

\* name = val: an array result is a new array and the name refers to it; a
\* reference (the value of a bare name) makes name one more name of that array
Bind(st, name, val, next) ==
  IF IsExc(val) THEN Raise(st, val)
  ELSE IF val.t = "ndarray" THEN
         [f |-> [st.f EXCEPT !.env[name] = Ref(Fresh(st)), !.pc = next],
          h |-> Store(st.h, Fresh(st), val.v),
          g |-> st.g]
  ELSE [st EXCEPT !.f.env[name] = val, !.f.pc = next]

\* name op= val: an array is updated in place, a scalar is rebound
Update(st, name, op, val, next) ==
  LET tgt == st.f.env[name]
      r   == BinOp(op, Val(st.h, tgt), Val(st.h, val))
  IN  IF IsExc(r) THEN Raise(st, r)
      ELSE IF tgt.t = "ref" THEN [st EXCEPT !.h[tgt.a] = r.v, !.f.pc = next]
      ELSE Bind(st, name, r, next)

\* return val: a name bound to an array hands back that array
Exit(st, val) ==
  IF IsExc(val) THEN Raise(st, val)
  ELSE IF val.t = "ndarray" THEN
         [f |-> [st.f EXCEPT !.pc = "returned", !.ret = Ref(Fresh(st))],
          h |-> Store(st.h, Fresh(st), val.v),
          g |-> st.g]
  ELSE [st EXCEPT !.f.pc = "returned", !.f.ret = val]

\* the statement stmt executed in st; a bare name stands for the object it
\* is bound to, any other expression for a new value
Exec(st, stmt) ==
  LET val == IF stmt.x.e = "var" THEN st.f.env[stmt.x.n]
             ELSE Eval(stmt.x, st.f.env, st.h, st.g)
  IN  Then(val,
        IF stmt.s = "=" THEN Bind(st, stmt.name, val, stmt.next)
        ELSE IF stmt.s = "op=" THEN Update(st, stmt.name, stmt.op, val, stmt.next)
        ELSE Exit(st, val))

(***************************************************************************)
(* dt_fusion.reactivity, line by line.                                     *)
(***************************************************************************)
temp_ions == Var("temp_ions")
\* line 30 binding denominator to the argument itself
R30Alias == Assign("denominator", temp_ions, "33")
R30 ==
  Assign("denominator",
    Mul(Un("-", temp_ions),
        Add(Lit(const_2), Mul(temp_ions, Add(Lit(const_4), Mul(temp_ions, Lit(const_6)))))),
    "33")
R33 ==
  AugAssign("denominator", "/",
    Add(IntLit(1), Mul(temp_ions,
        Add(Lit(const_3), Mul(temp_ions, Add(Lit(const_5), Mul(temp_ions, Lit(const_7))))))),
    "36")
R36 == AugAssign("denominator", "+", IntLit(1), "37")
R37 == Assign("theta", Div(temp_ions, Var("denominator")), "38")
R38 ==
  Assign("xi_greek",
    Power(Div(Mul(Lit(Quarter), Power(Lit(gamov_constant), IntLit(2))), Var("theta")),
          Div(IntLit(1), IntLit(3))),
    "39")
R39 ==
  Assign("sigma_v",
    Mul(Mul(Lit(const_1), Var("theta")),
        Un("np.sqrt", Div(Var("xi_greek"), Mul(IntLit(mrc2), Power(temp_ions, IntLit(3)))))),
    "40")
\* line 40 without the minus sign
R40PositiveExponent ==
  AugAssign("sigma_v", "*", Un("np.exp", Mul(IntLit(3), Var("xi_greek"))), "41")
R40 == AugAssign("sigma_v", "*", Un("np.exp", Mul(IntLit(-3), Var("xi_greek"))), "41")
R41 == Return(Var("sigma_v"))

reactivity(pc) ==
  IF pc = "30" THEN R30
  ELSE IF pc = "33" THEN R33
  ELSE IF pc = "36" THEN R36
  ELSE IF pc = "37" THEN R37
  ELSE IF pc = "38" THEN R38
  ELSE IF pc = "39" THEN R39
  ELSE IF pc = "40" THEN R40
  ELSE R41

(***************************************************************************)
(* relaxation_times.  The return statements of slowing_down_time and       *)
(* deflection_time are executed in Python's order, one call or operand per *)
(* step, each result held in a temporary; the helpers' parameters carry    *)
(* the names of the arguments they are called with.                        *)
(***************************************************************************)
_a_d ==
  Div(Mul(Mul(Mul(Mul(Var("background_density"),
                      Power(Const("ELECTRON_CHARGE"), IntLit(4))),
                  Power(Var("test_charge_state"), IntLit(2))),
              Power(Var("background_charge_state"), IntLit(2))),
          Const("COULOMB_LOG")),
      Mul(Mul(Mul(IntLit(2), Lit(np_pi)),
              Power(Const("PERMITTIVITY_OF_FREE_SPACE"), IntLit(2))),
          Power(Var("test_mass"), IntLit(2))))

_phi == Un("scipy.special.erf", Var("x"))

_phi_prime ==
  Div(Mul(IntLit(2), Un("np.exp", Un("-", Power(Var("x"), IntLit(2))))),
      Un("np.sqrt", Lit(np_pi)))

\* _psi without the 2 of its denominator
_psi_without_two ==
  Div(Sub(Var("_phi"), Mul(Var("x"), Var("_phi_prime"))), Power(Var("x"), IntLit(2)))
\* _psi(x), given what its calls of _phi and _phi_prime returned
_psi ==
  Div(Sub(Var("_phi"), Mul(Var("x"), Var("_phi_prime"))),
      Mul(IntLit(2), Power(Var("x"), IntLit(2))))

\* the argument test_speed / (np.sqrt(2) * background_thermal_speed)
SpeedRatio ==
  Div(Var("test_speed"), Mul(Un("np.sqrt", IntLit(2)), Var("background_thermal_speed")))

\* the steps of a call of _psi, then on in the caller
Psi(pc, next) ==
  IF pc = "_psi:_phi" THEN Assign("_phi", _phi, "_psi:_phi_prime")
  ELSE IF pc = "_psi:_phi_prime" THEN Assign("_phi_prime", _phi_prime, "_psi:return")
  ELSE Assign("_psi", _psi, next)

slowing_down_time(pc) ==
  IF pc = "86" THEN
    Assign("numerator",
           Mul(Mul(IntLit(2), Power(Var("background_thermal_speed"), IntLit(2))),
               Var("test_speed")), "87")
  ELSE IF pc = "87" THEN
    Assign("mass_factor",
           Add(IntLit(1), Div(Var("test_mass"), Var("background_mass"))), "87:_a_d")
  ELSE IF pc = "87:_a_d" THEN Assign("_a_d", _a_d, "89")
  ELSE IF pc = "89" THEN Assign("x", SpeedRatio, "_psi:_phi")
  ELSE IF pc = "89:return" THEN
    Return(Div(Var("numerator"),
               Mul(Mul(Var("mass_factor"), Var("_a_d")), Var("_psi"))))
  ELSE Psi(pc, "89:return")

deflection_time(pc) ==
  IF pc = "119" THEN Assign("numerator", Power(Var("test_speed"), IntLit(3)), "120")
  ELSE IF pc = "120" THEN Assign("_a_d", _a_d, "121")
  ELSE IF pc = "121" THEN Assign("x", SpeedRatio, "121:_phi")
  ELSE IF pc = "121:_phi" THEN Assign("phi", _phi, "122")
  ELSE IF pc = "122" THEN Assign("x", SpeedRatio, "_psi:_phi")
  ELSE IF pc = "122:return" THEN
    Return(Div(Var("numerator"), Mul(Var("_a_d"), Sub(Var("phi"), Var("_psi")))))
  ELSE Psi(pc, "122:return")

(***************************************************************************)
(* Invocations.  A call is an operation with its positional arguments.     *)
(***************************************************************************)
Names ==
  {"temp_ions", "denominator", "theta", "xi_greek", "sigma_v",
   "test_speed", "background_thermal_speed", "test_mass", "background_mass",
   "background_density", "test_charge_state", "background_charge_state",
   "numerator", "mass_factor", "_a_d", "x", "_phi", "_phi_prime", "_psi", "phi",
   "electron_temperature_j", "alpha_mass", "electron_mass",
   "electron_thermal_speed", "alpha_energies_mev",
   "alpha_energies_joules", "alpha_speeds", "tau_slowing_down_times",
   "tau_slowing_down_approx"}
Params(op) ==
  IF op = "reactivity" THEN <<"temp_ions">>
  ELSE IF op = "slowing_down_time" THEN
    <<"test_speed", "background_thermal_speed", "test_mass", "background_mass",
      "background_density", "test_charge_state", "background_charge_state">>
  ELSE IF op = "deflection_time" THEN
    <<"test_speed", "background_thermal_speed", "test_mass",
      "background_density", "test_charge_state", "background_charge_state">>
  ELSE << >>
Entry(op) ==
  IF op = "reactivity" THEN "30"
  ELSE IF op = "slowing_down_time" THEN "86"
  ELSE IF op = "deflection_time" THEN "119"
  ELSE "20"
Final == {"returned", "raised"}

\* the frame of a call made by caller id; snap and g0 remember the callers'
\* arrays and the globals as they were when the call was made
Frame(id, call, h, g) == Apply("Frame", <<id, call, h, g>>)
DoFrame(id, call, h, g) ==
  [id   |-> id,
   op   |-> call.op,
   call |-> call,
   snap |-> [a \in {x \in DOMAIN h : x[1] = 0} |-> h[a]],
   g0   |-> g,
   pc   |-> Entry(call.op),
   env  |-> [n \in Names |->
              LET p == {k \in 1..Len(Params(call.op)) : Params(call.op)[k] = n}
              IN  IF p = {} THEN None ELSE call.args[MaxOf(p)]],
   ret  |-> None]

\* the next step of an invocation of the package
Step(st) == Apply("Step", <<st>>)
\* a step that also rebinds constants.COULOMB_LOG, to the float of its value
StepRebindingCoulombLog(st) ==
  LET next == Exec(st, IF st.f.op = "reactivity" THEN reactivity(st.f.pc)
                       ELSE IF st.f.op = "slowing_down_time" THEN slowing_down_time(st.f.pc)
                       ELSE deflection_time(st.f.pc))
  IN  [next EXCEPT !.g.COULOMB_LOG = PyFloat(Num(@))]
DoStep(st) ==
  Exec(st, IF st.f.op = "reactivity" THEN reactivity(st.f.pc)
           ELSE IF st.f.op = "slowing_down_time" THEN slowing_down_time(st.f.pc)
           ELSE deflection_time(st.f.pc))

\* an invocation run to its end with nothing else running
MaxSteps == 12
RECURSIVE Run(_, _)
Run(st, n) ==
  IF st.f.pc \in Final \/ n = 0 THEN st
  ELSE LET st1 == Step(st) IN Then(st1, Run(st1, n - 1))
\* what an invocation hands back: the value returned, an array by value, or
\* the exception raised
Outcome(f, h) == [pc |-> f.pc, ret |-> Val(h, f.ret)]
Alone(call, h, g) ==
  LET st == Run([f |-> Frame(0, call, h, g), h |-> h, g |-> g], MaxSteps)
  IN  Outcome(st.f, st.h)

(***************************************************************************)
(* tests/test_relaxtion_times.py, up to its assertion (the plot that       *)
(* follows writes a picture and nothing else).                             *)
(***************************************************************************)
NUM_ENERGIES == 100

\* np.linspace(start, stop, num): arange(num) * step + start, the last
\* element set to stop
Linspace(start, stop, num) ==
  LET step == FDiv(FAdd(stop, FNeg(start)), FromInt(num - 1))
  IN  Tup([i \in 1..num |->
        IF i = num THEN stop ELSE FAdd(FMul(FromInt(i - 1), step), start)])

electron_density == Lit(PyFloat(FromDec(<<1>>, 20)))

\* the body of slowing_down_time_approx, its a_d in place
slowing_down_time_approx ==
  Div(Mul(IntLit(3),
          Un("np.sqrt", Mul(Mul(IntLit(2), Lit(np_pi)), Power(Var("t_e"), IntLit(3))))),
      Mul(Mul(Un("np.sqrt", Var("m_e")), Var("m_alpha")),
          Div(Mul(Mul(Mul(Mul(Var("n_e"), Power(Const("ELECTRON_CHARGE"), IntLit(4))),
                          Const("COULOMB_LOG")),
                      Power(Var("z_e"), IntLit(2))),
                  Power(Var("z_alpha"), IntLit(2))),
              Mul(Mul(Mul(IntLit(2), Lit(np_pi)),
                      Power(Const("PERMITTIVITY_OF_FREE_SPACE"), IntLit(2))),
                  Power(Var("m_alpha"), IntLit(2))))))

\* actual == pytest.approx(expected, rel): within rel * |expected|, or within
\* pytest's absolute tolerance 1e-12
Approx(actual, expected, rel) ==
  LET tol  == FMul(rel, FAbs(expected))
      abs  == FromDec(<<1>>, -12)
      diff == FAbs(FAdd(expected, FNeg(actual)))
  IN  /\ ~IsNaN(actual) /\ ~IsNaN(expected)
      /\ \/ actual = expected
         \/ /\ IsFinite(actual) /\ IsFinite(expected)
            /\ FLe(diff, IF FLt(tol, abs) THEN abs ELSE tol)

\* one pass of the loop of lines 53-62, for the next speed of alpha_speeds
Loop53(st) ==
  LET times  == st.f.env["tau_slowing_down_times"].v
      speeds == Val(st.h, st.f.env["alpha_speeds"]).v
      k      == Len(times) + 1
      call   == [op |-> "slowing_down_time",
                 args |-> <<Float64(speeds[k]), st.f.env["electron_thermal_speed"],
                            st.f.env["alpha_mass"], st.f.env["electron_mass"],
                            electron_density.v, PyInt(2), PyInt(1)>>]
      tau_s  == Run([f |-> Frame(st.f.id, call, st.h, st.g), h |-> st.h, g |-> st.g],
                    MaxSteps)
      tau_approx ==
        Eval(slowing_down_time_approx,
             [t_e |-> st.f.env["electron_temperature_j"], n_e |-> electron_density.v,
              m_e |-> st.f.env["electron_mass"], m_alpha |-> st.f.env["alpha_mass"],
              z_e |-> PyInt(1), z_alpha |-> PyInt(2)],
             tau_s.h, tau_s.g)
  IN  IF k > Len(speeds) THEN [st EXCEPT !.f.pc = "69"]
      ELSE Then(tau_s,
        IF tau_s.f.pc = "raised"
          THEN Raise([st EXCEPT !.h = tau_s.h, !.g = tau_s.g], tau_s.f.ret)
        ELSE IF IsExc(tau_approx) THEN Raise(st, tau_approx)
        ELSE [f |-> [st.f EXCEPT
                       !.env["tau_slowing_down_times"] =
                          List(Append(times, Num(Val(tau_s.h, tau_s.f.ret)))),
                       !.env["tau_slowing_down_approx"] =
                          List(Append(st.f.env["tau_slowing_down_approx"].v,
                                      Num(tau_approx)))],
              h |-> tau_s.h,
              g |-> tau_s.g])

\* the assertion of lines 65-71
Assert69(st) ==
  LET times  == st.f.env["tau_slowing_down_times"].v
      approx == st.f.env["tau_slowing_down_approx"].v
  IN  IF Approx(times[Len(times)], approx[Len(approx)], FromDec(<<1>>, -1))
      THEN Exit(st, None)
      ELSE Raise(st, Raised("AssertionError"))

test_slowing_down_time_alpha_vs_electrons(pc) ==
  IF pc = "20" THEN
    Assign("electron_temperature_j",
           Mul(Lit(PyFloat(FromDec(<<10>>, 3))), Const("ELECTRON_CHARGE")), "22")
  ELSE IF pc = "22" THEN Assign("alpha_mass", Const("ALPHA_ION_MASS"), "23")
  ELSE IF pc = "23" THEN Assign("electron_mass", Const("ELECTRON_MASS"), "28")
  ELSE IF pc = "28" THEN
    Assign("electron_thermal_speed",
           Un("np.sqrt", Div(Var("electron_temperature_j"), Var("electron_mass"))), "31")
  ELSE IF pc = "31" THEN
    Assign("alpha_energies_mev",
           Lit(NdArray(Linspace(FromDec(<<1>>, -2), FromDec(<<35>>, -1), NUM_ENERGIES))),
           "32")
  ELSE IF pc = "32" THEN
    Assign("alpha_energies_joules",
           Mul(Mul(Var("alpha_energies_mev"), Lit(PyFloat(FromDec(<<1>>, 6)))),
               Const("ELECTRON_CHARGE")), "33")
  ELSE IF pc = "33" THEN
    Assign("alpha_speeds",
           Un("np.sqrt", Div(Var("alpha_energies_joules"), Var("alpha_mass"))), "49")
  ELSE IF pc = "49" THEN Assign("tau_slowing_down_times", Lit(List(<< >>)), "50")
  ELSE Assign("tau_slowing_down_approx", Lit(List(<< >>)), "53")

\* the next step of the test
TestStep(st) == Apply("TestStep", <<st>>)
DoTestStep(st) ==
  IF st.f.pc = "53" THEN Loop53(st)
  ELSE IF st.f.pc = "69" THEN Assert69(st)
  ELSE Exec(st, test_slowing_down_time_alpha_vs_electrons(st.f.pc))

(***************************************************************************)
(* The callers.  CallerArrays are the arrays the callers own and pass,     *)
(* Calls the calls they make.                                              *)
(***************************************************************************)
Threads == 1..2

\* the electron thermal speed of the test's scenario, 41938288.2664983 m/s
Vth == FromDec(<<419, 382, 882, 664, 983>>, -7)
\* speeds of an alpha particle: two slow ones, and 1e6 and 1.3e7 m/s
Speeds == <<FromDec(<<1>>, -1), FromDec(<<75>>, -2), FromDec(<<1>>, 6), FromDec(<<13>>, 6)>>

CallerArrays ==
  << <<Zero(0), FNeg(FromInt(1))>>,
     <<FromInt(1), FromDec(<<10, 000, 000, 000, 000, 002>>, -16)>>,
     <<FromInt(1), FromDec(<<1, 000, 000, 002>>, -9)>>,
     <<FromDec(<<19, 999, 999, 998>>, -9), FromInt(20)>>,
     <<FromInt(1), FromInt(10), FromInt(20)>>,
     <<FromDec(<<1>>, -4), FromInt(100)>>,
     <<Zero(0), Speeds[2]>>,
     <<Speeds[3], Speeds[4]>> >>
\* the heap that holds them
CallerHeap == Apply("CallerHeap", << >>)
DoCallerHeap == [a \in {<<0, k>> : k \in 1..Len(CallerArrays)} |-> CallerArrays[a[2]]]
Array(k) == Ref(<<0, k>>)

Reactivity(T) == [op |-> "reactivity", args |-> <<T>>]
\* a test particle of the mass and charge of an alpha particle in electrons
\* of density 1e20 m^-3
Scenario(op, test_speed, background_thermal_speed) ==
  [op |-> op,
   args |-> IF op = "slowing_down_time"
            THEN <<test_speed, background_thermal_speed, PyFloat(ALPHA_ION_MASS),
                   PyFloat(ELECTRON_MASS), electron_density.v, PyInt(2), PyInt(1)>>
            ELSE <<test_speed, background_thermal_speed, PyFloat(ALPHA_ION_MASS),
                   electron_density.v, PyInt(2), PyInt(1)>>]
TestCall == [op |-> "test_slowing_down_time_alpha_vs_electrons", args |-> << >>]

Temperatures ==
  {Zero(0), FNeg(FromInt(1)), FromDec(<<1>>, -5), FromDec(<<1>>, -4), FromInt(10),
   FromDec(<<1>>, 90), FromDec(<<1>>, 103)}

Calls == Apply("Calls", << >>)
DoCalls ==
  {Reactivity(PyFloat(T)) : T \in Temperatures}
  \cup {Reactivity(Float64(T)) : T \in {Zero(0), FNeg(FromInt(1)), FromInt(10)}}
  \cup {Reactivity(Array(k)) : k \in 1..6}
  \cup {Scenario(op, v, PyFloat(Vth)) :
          op \in {"slowing_down_time", "deflection_time"},
          v \in {PyFloat(Zero(0)), PyFloat(Speeds[1]), PyFloat(Speeds[2]),
                 PyFloat(Speeds[4]), Float64(Speeds[4]), Array(7), Array(8)}}
  \cup {Scenario(op, v, PyFloat(Zero(0))) :
          op \in {"slowing_down_time", "deflection_time"},
          v \in {PyFloat(Zero(0)), PyFloat(Speeds[4])}}

\* two calls by two callers at the same time, on the same array or on two
\* arrays, and two calls in a row by one caller
Workloads == Apply("Workloads", << >>)
DoWorkloads ==
  LET r3 == Reactivity(Array(3))
      r4 == Reactivity(Array(4))
      r5 == Reactivity(Array(5))
      s8 == Scenario("slowing_down_time", Array(8), PyFloat(Vth))
      d8 == Scenario("deflection_time", Array(8), PyFloat(Vth))
  IN  {<< <<r3>>, <<r3>> >>, << <<r4>>, <<s8>> >>,
       << <<r5, s8>>, << >> >>, << <<d8, r3>>, << >> >>}

\* The operators that the rest of the module reaches through Apply, by
\* name: X(args) is Apply("X", <<args>>), which is DoX(args).
Apply(f, x) ==
  CASE f = "BAdd" -> DoBAdd(x[1], x[2])
    [] f = "BSub" -> DoBSub(x[1], x[2])
    [] f = "BCmp" -> DoBCmp(x[1], x[2])
    [] f = "BMulSmall" -> DoBMulSmall(x[1], x[2])
    [] f = "BMul" -> DoBMul(x[1], x[2])
    [] f = "BDivSmall" -> DoBDivSmall(x[1], x[2])
    [] f = "BBitLen" -> DoBBitLen(x[1])
    [] f = "BShl" -> DoBShl(x[1], x[2])
    [] f = "BShr" -> DoBShr(x[1], x[2])
    [] f = "BDiv" -> DoBDiv(x[1], x[2])
    [] f = "BCbrt" -> DoBCbrt(x[1])
    [] f = "Round" -> DoRound(x[1], x[2], x[3], x[4])
    [] f = "FAdd" -> DoFAdd(x[1], x[2])
    [] f = "FromDec" -> DoFromDec(x[1], x[2])
    [] f = "FromInt" -> DoFromInt(x[1])
    [] f = "ExpFixed" -> DoExpFixed(x[1])
    [] f = "LnApprox" -> DoLnApprox(x[1], x[2])
    [] f = "BinOp" -> DoBinOp(x[1], x[2], x[3])
    [] f = "FPowThird" -> DoFPowThird(x[1])
    [] f = "Fun" -> DoFun(x[1], x[2])
    [] f = "ConstantsModule" -> DoConstantsModule
    [] f = "Eval" -> DoEval(x[1], x[2], x[3], x[4])
    [] f = "Frame" -> DoFrame(x[1], x[2], x[3], x[4])
    [] f = "Step" -> DoStep(x[1])
    [] f = "TestStep" -> DoTestStep(x[1])
    [] f = "CallerHeap" -> DoCallerHeap
    [] f = "Calls" -> DoCalls
    [] f = "Workloads" -> DoWorkloads

VARIABLES
  constants,  \* the module `constants`
  heap,       \* the arrays, by address
  frame,      \* the running invocation of each caller
  todo        \* the calls each caller still has to make
vars == <<constants, heap, frame, todo>>

NoCall == [op |-> "none", args |-> << >>]
Idle(i) ==
  [id |-> i, op |-> "none", call |-> NoCall, snap |-> CallerHeap, g0 |-> ConstantsModule,
   pc |-> "idle", env |-> [n \in Names |-> None], ret |-> None]

\* the program just imported, one caller about to make one call
Init ==
  /\ constants = ConstantsModule
  /\ heap = CallerHeap
  /\ frame = [i \in Threads |-> Idle(i)]
  /\ \E c \in Calls : todo = << <<c>>, << >> >>

\* the program just imported, the callers about to start on a workload
ConcurrentInit ==
  /\ constants = ConstantsModule
  /\ heap = CallerHeap
  /\ frame = [i \in Threads |-> Idle(i)]
  /\ todo \in Workloads

\* pytest about to run the test
TestInit ==
  /\ constants = ConstantsModule
  /\ heap = CallerHeap
  /\ frame = [i \in Threads |-> Idle(i)]
  /\ todo = << <<TestCall>>, << >> >>

\* caller i makes its next call
Call(i) ==
  /\ frame[i].pc = "idle"
  /\ todo[i] # << >>
  /\ frame' = [frame EXCEPT ![i] = Frame(i, Head(todo[i]), heap, constants)]
  /\ todo' = [todo EXCEPT ![i] = Tail(todo[i])]
  /\ UNCHANGED <<constants, heap>>

\* the invocation of caller i has taken a step to st
Becomes(i, st) ==
  /\ frame' = [frame EXCEPT ![i] = st.f]
  /\ heap' = st.h
  /\ constants' = st.g
  /\ UNCHANGED todo
Running(i, op) == frame[i].op = op /\ frame[i].pc \notin Final
State(i) == [f |-> frame[i], h |-> heap, g |-> constants]

\* the invocation of caller i executes its next step
PackageStep(i) ==
  /\ frame[i].op \in {"reactivity", "slowing_down_time", "deflection_time"}
  /\ frame[i].pc \notin Final
  /\ Becomes(i, Step(State(i)))
TestFunctionStep(i) ==
  /\ Running(i, "test_slowing_down_time_alpha_vs_electrons")
  /\ Becomes(i, TestStep(State(i)))

\* caller i takes the result
Finish(i) ==
  /\ frame[i].pc \in Final
  /\ frame' = [frame EXCEPT ![i] = Idle(i)]
  /\ UNCHANGED <<constants, heap, todo>>

Next ==
  \E i \in Threads :
    \/ Call(i)
    \/ PackageStep(i)
    \/ Finish(i)

Spec == Init /\ [][Next]_vars
ConcurrentSpec == ConcurrentInit /\ [][Next]_vars

TestNext ==
  \E i \in Threads :
    \/ Call(i)
    \/ TestFunctionStep(i)
    \/ Finish(i)

TestSpec == TestInit /\ [][TestNext]_vars

(***************************************************************************)
(* Properties.  A finished invocation stays in its caller's frame until    *)
(* the caller takes the result; the frame remembers the call, and the      *)
(* callers' arrays and the globals as they were when the call was made.    *)
(***************************************************************************)
Package == {"reactivity", "slowing_down_time", "deflection_time"}
RelaxationTimes == {"slowing_down_time", "deflection_time"}
Finished(i) == frame[i].op \in Package /\ frame[i].pc \in Final
\* the varying argument of the call of frame f as it was passed, and the
\* number of its elements
Input(f) == Val(f.snap, f.call.args[1])
Size(f) == Len(Input(f).v)
\* what the finished invocation of frame f handed back
Result(f) == Val(heap, f.ret)
IsReal(v) == v.t \in {"float", "float64", "ndarray"}
IsSpecial(d) == IsNaN(d) \/ IsInf(d)
\* frame f returned, for element k of its input, a real number that is
\* NaN or infinite / positive and finite
ReturnedSpecial(f, k) ==
  f.pc = "returned" /\ IsReal(Result(f)) /\ IsSpecial(Elem(Result(f), k))
ReturnedPositiveFinite(f, k) ==
  /\ f.pc = "returned" /\ IsReal(Result(f))
  /\ Elem(Result(f), k).k = "fin" /\ Elem(Result(f), k).s = 0

\* element k of the input of frame f is a boundary input: a temperature
\* that is zero or negative, a test speed that is zero, or any test speed
\* with a background thermal speed that is zero
BoundaryInput(f, k) ==
  IF f.op = "reactivity"
  THEN IsZero(Input(f).v[k]) \/ FNegative(Input(f).v[k])
  ELSE IsZero(Input(f).v[k]) \/ IsZero(Num(f.call.args[2]))
\* C1: every call with a boundary input (a temperature that is zero or
\* negative; a test speed or a background thermal speed that is zero),
\* scalar or array, returns NaN or an infinity for it: it raises nothing
\* and returns no other kind of value.
C1_BoundaryInputsReturnNaNOrInfinity ==
  \A i \in Threads :
    Finished(i) =>
      \A k \in 1..Size(frame[i]) :
        BoundaryInput(frame[i], k) => ReturnedSpecial(frame[i], k)

\* element k of the test speeds of frame f and its background thermal
\* speed are positive and finite
ValidSpeeds(f, k) ==
  /\ Input(f).v[k].k = "fin" /\ Input(f).v[k].s = 0
  /\ Num(f.call.args[2]).k = "fin" /\ Num(f.call.args[2]).s = 0
\* C3: slowing_down_time and deflection_time return a positive, finite
\* time for every test speed > 0 with a background thermal speed > 0 (the
\* masses and the density of every call are positive, the charges not zero).
C3_RelaxationTimesPositiveFinite ==
  \A i \in Threads :
    (Finished(i) /\ frame[i].op \in RelaxationTimes) =>
      \A k \in 1..Size(frame[i]) :
        ValidSpeeds(frame[i], k) => ReturnedPositiveFinite(frame[i], k)

\* the invocation of caller i has called _psi and holds its result
PsiReturned(i) ==
  frame[i].op \in RelaxationTimes /\ frame[i].env["_psi"].t # "None"
\* C7: whenever _psi has returned for an argument x > 0, the values that
\* _phi and _psi computed for it satisfy Phi(x) >= Psi(x) >= 0.
C7_PhiAtLeastPsiAtLeastZero ==
  \A i \in Threads :
    PsiReturned(i) =>
      LET x   == Val(heap, frame[i].env["x"])
          phi == Val(heap, frame[i].env["_phi"])
          psi == Val(heap, frame[i].env["_psi"])
      IN  \A k \in 1..Len(x.v) :
            (x.v[k].k = "fin" /\ x.v[k].s = 0) =>
              /\ FLe(Zero(0), psi.v[k])
              /\ FLe(psi.v[k], phi.v[k])

\* C2: a call on an array returns an array of the same length whose k-th
\* element is what the call returns for the k-th element alone (taken from
\* the array, a numpy scalar), for every k.
C2_ArrayCallIsElementwise ==
  \A i \in Threads :
    (Finished(i) /\ frame[i].call.args[1].t = "ref") =>
      /\ frame[i].pc = "returned"
      /\ Result(frame[i]).t = "ndarray"
      /\ Len(Result(frame[i]).v) = Size(frame[i])
      /\ \A k \in 1..Size(frame[i]) :
           LET one == Alone([frame[i].call EXCEPT
                               !.args[1] = Float64(Input(frame[i]).v[k])],
                            frame[i].snap, frame[i].g0)
           IN  /\ one.pc = "returned"
               /\ one.ret.t = "float64"
               /\ Num(one.ret) = Result(frame[i]).v[k]
\* a call on the array <<1, 10, 20>> has returned three different values
C2_Witness ==
  \E i \in Threads :
    /\ Finished(i) /\ frame[i].pc = "returned"
    /\ frame[i].call.args[1] = Array(5)
    /\ Cardinality({Result(frame[i]).v[k] : k \in 1..3}) = 3

\* C4 as claimed: reactivity returns a positive, finite value for every
\* temperature T > 0.
C4_ReactivityPositiveFiniteForEveryPositiveT ==
  \A i \in Threads :
    (Finished(i) /\ frame[i].op = "reactivity") =>
      \A k \in 1..Size(frame[i]) :
        (Input(frame[i]).v[k].k = "fin" /\ Input(frame[i]).v[k].s = 0)
          => ReturnedPositiveFinite(frame[i], k)
\* 1e-4 <= d <= 1e90
InFitRange(d) == FLe(FromDec(<<1>>, -4), d) /\ FLe(d, FromDec(<<1>>, 90))
\* lines 30-36 have computed the denominator of line 37
DenominatorDone(f) ==
  f.op = "reactivity" /\ f.pc \in {"37", "38", "39", "40", "41", "returned"}
\* C4 as amended: for every temperature T with 1e-4 <= T <= 1e90 keV the
\* denominator on which line 37 divides is positive, and reactivity returns
\* a positive, finite value.
C4_ReactivityPositiveFiniteInRange ==
  \A i \in Threads :
    /\ DenominatorDone(frame[i]) =>
         \A k \in 1..Size(frame[i]) :
           InFitRange(Input(frame[i]).v[k]) =>
             LET d == Elem(Val(heap, frame[i].env["denominator"]), k)
             IN  d.k = "fin" /\ d.s = 0
    /\ (Finished(i) /\ frame[i].op = "reactivity") =>
         \A k \in 1..Size(frame[i]) :
           InFitRange(Input(frame[i]).v[k]) => ReturnedPositiveFinite(frame[i], k)
\* reactivity has returned for the temperatures 1e-4 and 1e90
C4_Witness ==
  \E i \in Threads :
    /\ Finished(i) /\ frame[i].op = "reactivity" /\ frame[i].pc = "returned"
    /\ Input(frame[i]).v[1] \in {FromDec(<<1>>, -4), FromDec(<<1>>, 90)}
    /\ frame[i].call.args[1].t = "float"

\* 1 <= d <= 20
InLowRange(d) == FLe(FromInt(1), d) /\ FLe(d, FromInt(20))
\* C5 as claimed: for all temperatures T1 < T2 of the interval from 1 to
\* 20 keV, reactivity(T1) < reactivity(T2).
C5_ReactivityStrictlyIncreasing ==
  \A i \in Threads :
    (Finished(i) /\ frame[i].op = "reactivity" /\ frame[i].pc = "returned") =>
      \A j, k \in 1..Size(frame[i]) :
        LET T1 == Input(frame[i]).v[j]
            T2 == Input(frame[i]).v[k]
        IN  (InLowRange(T1) /\ InLowRange(T2) /\ FLt(T1, T2)) =>
              FLt(Elem(Result(frame[i]), j), Elem(Result(frame[i]), k))
\* C5 as amended: for all temperatures T1, T2 of the interval from 1 to
\* 20 keV with T2 - T1 >= 1e-9, reactivity(T1) < reactivity(T2).
C5_ReactivityIncreasingAcrossGap ==
  \A i \in Threads :
    (Finished(i) /\ frame[i].op = "reactivity" /\ frame[i].pc = "returned") =>
      \A j, k \in 1..Size(frame[i]) :
        LET T1 == Input(frame[i]).v[j]
            T2 == Input(frame[i]).v[k]
        IN  (InLowRange(T1) /\ InLowRange(T2)
             /\ FLe(FromDec(<<1>>, -9), FSub(T2, T1))) =>
              FLt(Elem(Result(frame[i]), j), Elem(Result(frame[i]), k))
\* reactivity has returned for two temperatures that are 2e-9 keV apart
C5_Witness ==
  \E i \in Threads :
    /\ Finished(i) /\ frame[i].pc = "returned"
    /\ frame[i].call = Reactivity(Array(3))
    /\ FLt(Result(frame[i]).v[1], Result(frame[i]).v[2])

\* C8: in every state ELECTRON_CHARGE is the double 1.60217662e-19
\* (0x1.7a4da2594bb57p-63) and every constant has the value the import
\* gave it.
C8_ConstantsKeepTheirValues ==
  /\ constants.ELECTRON_CHARGE = PyFloat(Fin(0, <<6999, 3237, 5769, 3913, 1>>, -115))
  /\ constants = ConstantsModule
\* the second of two calls in a row has returned: deflection_time, which
\* reads three of the constants, and then reactivity
C8_Witness ==
  /\ Finished(1) /\ frame[1].op = "reactivity" /\ frame[1].pc = "returned"
  /\ todo[1] = << >> /\ frame[2].pc = "idle"
  /\ Cardinality({a \in DOMAIN heap : a[1] = 1}) >= 10
  /\ constants = ConstantsModule

\* C9: an invocation hands back what it hands back when it runs alone, on
\* the arguments, arrays and globals it was called with, whatever the other
\* caller did in between.
C9_SameResultAsAlone ==
  \A i \in Threads :
    Finished(i) =>
      Outcome(frame[i], heap) = Alone(frame[i].call, frame[i].snap, frame[i].g0)
\* two invocations on the same array have both returned
C9_Witness ==
  /\ \A i \in Threads : Finished(i) /\ frame[i].pc = "returned"
  /\ frame[1].call.args[1] = frame[2].call.args[1]
  /\ frame[1].call.args[1].t = "ref"

\* C10: after reactivity has returned for an array, the array holds what
\* it held when the call was made.
C10_ReactivityLeavesArgumentUnchanged ==
  \A i \in Threads :
    (Finished(i) /\ frame[i].op = "reactivity" /\ frame[i].call.args[1].t = "ref") =>
      heap[frame[i].call.args[1].a] = frame[i].snap[frame[i].call.args[1].a]
\* reactivity has returned an array that differs from its argument
C10_Witness ==
  \E i \in Threads :
    /\ Finished(i) /\ frame[i].op = "reactivity" /\ frame[i].pc = "returned"
    /\ frame[i].call.args[1].t = "ref"
    /\ Result(frame[i]).v # Input(frame[i]).v
    /\ heap[frame[i].call.args[1].a] = Input(frame[i]).v

\* the frame of the test function
TestFrame == frame[1]
\* C6: the test's assertion at 3.5 MeV does not fail, and at every energy
\* of its loop, 0.01 to 3.5 MeV, the slowing down time is within 10% of the
\* approximation.
C6_SlowingDownTimeWithinTenPercent ==
  LET times  == TestFrame.env["tau_slowing_down_times"]
      approx == TestFrame.env["tau_slowing_down_approx"]
  IN  /\ TestFrame.pc # "raised"
      /\ (times.t = "list" /\ times.v # << >>) =>
           Approx(times.v[Len(times.v)], approx.v[Len(approx.v)], FromDec(<<1>>, -1))
\* the test has returned after its loop has run for every energy
C6_Witness ==
  /\ TestFrame.pc = "returned"
  /\ Len(TestFrame.env["tau_slowing_down_times"].v) = NUM_ENERGIES
  /\ TestFrame.op = "test_slowing_down_time_alpha_vs_electrons"
====
